---- MODULE Spec2Model ----
(***************************************************************************)
(* Product import pipeline: the bulkCreateProducts action (import          *)
(* orchestrator), the getProgress loader, the CSV / API source             *)
(* transformers and the markup engine of src/unnamed/part_000.             *)
(*                                                                         *)
(* A JavaScript string is a sequence of one-character strings.  A missing  *)
(* (undefined) or empty cell is the empty sequence: the code reads every   *)
(* cell through `x || fallback`, which treats both alike.                  *)
(***************************************************************************)
EXTENDS Integers, Sequences, FiniteSets, TLC

(***************************************************************************)
(* Bounds of the model.                                                    *)
(***************************************************************************)
MaxRows == 2        \* longest CSV row list in the default payload family
MaxRequests == 2    \* import requests served one after the other by a slot
MaxFaults == 2      \* failures of external calls met by the one request of a slot
MaxRepeatFaults == 1 \* the same, met by a slot over the requests it serves
MaxConditions == 2  \* longest condition list of the markup payload family
MaxTokens == 2      \* longest selector token list of the selection payload family

(***************************************************************************)
(* Strings.                                                                *)
(***************************************************************************)
Lower(c) ==
  CASE c = "A" -> "a"
    [] c = "B" -> "b"
    [] c = "P" -> "p"
    [] c = "S" -> "s"
    [] c = "K" -> "k"
    [] c = "U" -> "u"
    [] OTHER -> c

toLowerCase(s) == [k \in 1..Len(s) |-> Lower(s[k])]

RECURSIVE trimStart(_)
trimStart(s) == IF s # <<>> /\ Head(s) = " " THEN trimStart(Tail(s)) ELSE s

RECURSIVE trimEnd(_)
trimEnd(s) ==
  IF s # <<>> /\ s[Len(s)] = " " THEN trimEnd(SubSeq(s, 1, Len(s) - 1)) ELSE s

trim(s) == trimEnd(trimStart(s))

startsWith(s, t) == Len(t) <= Len(s) /\ SubSeq(s, 1, Len(t)) = t

endsWith(s, t) == Len(t) <= Len(s) /\ SubSeq(s, Len(s) - Len(t) + 1, Len(s)) = t

includes(s, t) ==
  \E k \in 0..(Len(s) - Len(t)) : SubSeq(s, k + 1, k + Len(t)) = t

DigitChars == <<"0", "1", "2", "3", "4", "5", "6", "7", "8", "9">>

IsDigit(c) == \E d \in 1..10 : DigitChars[d] = c

DigitVal(c) == (CHOOSE d \in 1..10 : DigitChars[d] = c) - 1

\* `${n}` for the small non-negative integers the code interpolates
RECURSIVE NumStr(_)
NumStr(n) ==
  IF n < 10 THEN <<DigitChars[n + 1]>>
  ELSE NumStr(n \div 10) \o <<DigitChars[(n % 10) + 1]>>

\* token.split('::'): the pieces between the occurrences of "::"
RECURSIVE splitColons(_, _)
splitColons(s, acc) ==
  IF s = <<>> THEN <<acc>>
  ELSE IF Len(s) >= 2 /\ s[1] = ":" /\ s[2] = ":"
       THEN <<acc>> \o splitColons(SubSeq(s, 3, Len(s)), <<>>)
       ELSE splitColons(Tail(s), Append(acc, Head(s)))

\* const [key, value] = token.split('::')  (a missing piece is undefined)
TokenKey(token) == splitColons(token, <<>>)[1]

TokenValue(token) ==
  LET parts == splitColons(token, <<>>)
  IN IF Len(parts) >= 2 THEN parts[2] ELSE <<>>

\* row[key], item[key]: undefined for an absent key
Get(rec, key) == IF key \in DOMAIN rec THEN rec[key] ELSE <<>>

\* s.split(','): the pieces between the commas
\* (acc is the beginning of the first piece, read before s)
splitComma(s, acc) ==
  LET commas == SelectSeq([k \in 1..Len(s) |-> k], LAMBDA k : s[k] = ",")
      ends == <<0>> \o commas \o <<Len(s) + 1>>
  IN [j \in 1..(Len(commas) + 1) |->
        (IF j = 1 THEN acc ELSE <<>>) \o SubSeq(s, ends[j] + 1, ends[j + 1] - 1)]

(***************************************************************************)
(* Literals of the code.                                                   *)
(***************************************************************************)
K_Title == <<"T", "i", "t", "l", "e">>
K_title == <<"t", "i", "t", "l", "e">>
K_SKU == <<"S", "K", "U">>
K_sku == <<"s", "k", "u">>
K_Tags == <<"T", "a", "g", "s">>
K_Vendor == <<"V", "e", "n", "d", "o", "r">>
K_vendor == <<"v", "e", "n", "d", "o", "r">>
K_Type == <<"T", "y", "p", "e">>
K_type == <<"t", "y", "p", "e">>
K_VariantPrice == <<"V", "a", "r", "i", "a", "n", "t", " ", "P", "r", "i", "c", "e">>
K_price == <<"p", "r", "i", "c", "e">>
K_ImageURL == <<"I", "m", "a", "g", "e", " ", "U", "R", "L">>
K_image_url == <<"i", "m", "a", "g", "e", "_", "u", "r", "l">>
K_name == <<"n", "a", "m", "e">>

S_ProductPrefix == <<"P", "r", "o", "d", "u", "c", "t", " ">>
S_SkuPrefix == <<"S", "K", "U", "-">>
S_DefaultVendor == <<"D", "e", "f", "a", "u", "l", "t", " ", "V", "e", "n", "d", "o", "r">>
S_DefaultType == <<"D", "e", "f", "a", "u", "l", "t", " ", "T", "y", "p", "e">>
S_ImportedProduct == <<"I", "m", "p", "o", "r", "t", "e", "d", " ", "P", "r", "o", "d", "u", "c", "t">>
S_DemoTitle == <<"D", "e", "m", "o", " ", "P", "r", "o", "d", "u", "c", "t", " ", "-", " ",
                 "T", "e", "s", "t", " ", "I", "m", "p", "o", "r", "t">>
S_DemoVendor == <<"D", "e", "m", "o", " ", "V", "e", "n", "d", "o", "r">>
S_Test == <<"T", "e", "s", "t">>
S_demo == <<"d", "e", "m", "o">>
S_test == <<"t", "e", "s", "t">>
S_DemoSku == <<"D", "E", "M", "O", "-", "0", "0", "1">>
S_default == <<"d", "e", "f", "a", "u", "l", "t">>
S_Sandeep == <<"S", "a", "n", "d", "e", "e", "p">>
S_10_00 == <<"1", "0", ".", "0", "0">>
S_0_00 == <<"0", ".", "0", "0">>

\* a || b for strings: the first operand unless it is empty (falsy)
Or2(a, b) == IF a # <<>> THEN a ELSE b

Or3(a, b, c) == Or2(a, Or2(b, c))

(***************************************************************************)
(* Canonical products.  variants is a sequence (empty when the product     *)
(* has no variants array); tagsDefined is FALSE when the product has no    *)
(* tags property; price is the product-level price, which only the         *)
(* invalid-source fallback product carries.                                *)
(***************************************************************************)
Variant(price, sku, image_url) ==
  [price |-> price, sku |-> sku, image_url |-> image_url]

Product(title, vendor, productType, tags, variants, price) ==
  [title |-> title, vendor |-> vendor, productType |-> productType,
   tags |-> tags, tagsDefined |-> TRUE, variants |-> variants, price |-> price,
   status |-> "DRAFT", markupApplied |-> FALSE]

limitTagsArray(tags, maxLength) ==
  IF Len(tags) <= maxLength THEN tags ELSE SubSeq(tags, 1, maxLength)

\* the values of the well-formed selector tokens, in token order
filterTags(tokens) ==
  LET valid == SelectSeq(tokens, LAMBDA token : TokenKey(token) # <<>>
                                                /\ TokenValue(token) # <<>>)
  IN [k \in 1..Len(valid) |-> TokenValue(valid[k])]

\* the three-way comparison of the selection filter
selectorMatches(cell, value) ==
  LET rowValue == toLowerCase(trim(cell))
      filterValue == toLowerCase(trim(value))
  IN \/ rowValue = filterValue
     \/ includes(rowValue, filterValue)
     \/ includes(filterValue, rowValue)

\* selectedIndices: a Set<number>, kept in insertion order (tokens outside,
\* rows inside), which is the order Array.from(selectedIndices) yields
\* a list instead of the Set: an index is added once per matching token
RECURSIVE addMatches_Repeating(_, _, _, _)
addMatches_Repeating(rows, token, index, acc) ==
  IF index > Len(rows) THEN acc
  ELSE addMatches_Repeating(rows, token, index + 1,
         IF selectorMatches(Get(rows[index], TokenKey(token)), TokenValue(token))
         THEN Append(acc, index) ELSE acc)

RECURSIVE addMatches(_, _, _, _)
addMatches(rows, token, index, acc) ==
  IF index > Len(rows) THEN acc
  ELSE LET hit == selectorMatches(Get(rows[index], TokenKey(token)), TokenValue(token))
           seen == \E k \in 1..Len(acc) : acc[k] = index
       IN addMatches(rows, token, index + 1,
                     IF hit /\ ~seen THEN Append(acc, index) ELSE acc)

RECURSIVE selectedIndices(_, _, _)
selectedIndices(rows, tokens, acc) ==
  IF tokens = <<>> THEN acc
  ELSE LET token == Head(tokens)
       IN IF TokenKey(token) = <<>> \/ TokenValue(token) = <<>>
          THEN selectedIndices(rows, Tail(tokens), acc)
          ELSE selectedIndices(rows, Tail(tokens), addMatches(rows, token, 1, acc))

\* one CSV row to a product; index is the 1-based position in filteredRows
csvRowToProduct(row, index, tokens) ==
  LET rowTags == IF Get(row, K_Tags) # <<>>
                 THEN LET parts == splitComma(Get(row, K_Tags), <<>>)
                      IN [k \in 1..Len(parts) |-> trim(parts[k])]
                 ELSE <<>>
  IN Product(Or3(Get(row, K_Title), Get(row, K_title), S_ProductPrefix \o NumStr(index)),
             Or3(Get(row, K_Vendor), Get(row, K_vendor), S_DefaultVendor),
             Or3(Get(row, K_Type), Get(row, K_type), S_DefaultType),
             rowTags \o filterTags(tokens),
             <<Variant(Or3(Get(row, K_VariantPrice), Get(row, K_price), S_10_00),
                       Or3(Get(row, K_SKU), Get(row, K_sku), S_SkuPrefix \o NumStr(index)),
                       Or2(Get(row, K_ImageURL), Get(row, K_image_url)))>>,
             <<>>)

\* csvData is [isArray |-> whether csvData.rows is an array, rows |-> it]
processCsvData(csvData, tokens) ==
  IF ~csvData.isArray THEN <<>>
  ELSE LET rows == csvData.rows
           picked == selectedIndices(rows, tokens, <<>>)
           filteredRows == IF Len(tokens) > 0
                           THEN [k \in 1..Len(picked) |-> rows[picked[k]]]
                           ELSE rows
       IN [k \in 1..Len(filteredRows) |-> csvRowToProduct(filteredRows[k], k, tokens)]

(***************************************************************************)
(* fetchApiData.  The remote answer is an input: response.ok says whether  *)
(* the fetch returned a 2xx body (a network error, a timeout and a non-2xx *)
(* status all end in the empty list), response.items is the first          *)
(* non-empty array of the body.  keyMappings maps source keys to the       *)
(* canonical keys "title", "sku", "price", "tags", "vendor",               *)
(* "productType", "image_url".                                             *)
(***************************************************************************)
\* product[targetKey] after the key-mapping loop: the last mapped source key
\* whose value is defined wins; keyMappings is a sequence of <<source, target>>
RECURSIVE mapped(_, _, _)
mapped(item, keyMappings, target) ==
  IF keyMappings = <<>> THEN <<>>
  ELSE LET last == keyMappings[Len(keyMappings)]
           rest == SubSeq(keyMappings, 1, Len(keyMappings) - 1)
       IN IF last[2] = target /\ last[1] \in DOMAIN item
          THEN item[last[1]]
          ELSE mapped(item, rest, target)

apiItemToProduct(item, keyMappings, tokens) ==
  LET m(target) == mapped(item, keyMappings, target)
      tags0 == (IF m("tags") # <<>> THEN <<m("tags")>> ELSE <<>>) \o filterTags(tokens)
      tags1 == IF tags0 = <<>> THEN <<S_default, S_Sandeep>>
               ELSE IF \E k \in 1..Len(tags0) : tags0[k] = S_Sandeep THEN tags0
               ELSE Append(tags0, S_Sandeep)
  IN Product(Or3(m("title"), Get(item, K_name), Or2(Get(item, K_title), S_ImportedProduct)),
             Or2(m("vendor"), Get(item, K_vendor)),
             Or2(m("productType"), Get(item, K_type)),
             limitTagsArray(tags1, 250),
             <<Variant(Or3(m("price"), Get(item, K_price), S_0_00),
                       Or2(m("sku"), Get(item, K_sku)),
                       Or2(m("image_url"), Get(item, K_image_url)))>>,
             <<>>)

apiItemSelected(item, tokens) ==
  \E k \in 1..Len(tokens) :
     /\ TokenKey(tokens[k]) # <<>>
     /\ TokenValue(tokens[k]) # <<>>
     /\ selectorMatches(Get(item, TokenKey(tokens[k])), TokenValue(tokens[k]))

fetchApiData(response, tokens, keyMappings) ==
  IF ~response.ok THEN <<>>
  ELSE LET items == response.items
           filteredItems == IF Len(tokens) = 0 THEN items
                            ELSE SelectSeq(items, LAMBDA item : apiItemSelected(item, tokens))
       IN [k \in 1..Len(filteredItems) |->
             apiItemToProduct(filteredItems[k], keyMappings, tokens)]

(***************************************************************************)
(* Numbers.  A JavaScript number is [nan |-> BOOLEAN, v |-> Int] with v    *)
(* in units of 1/Unit; digits beyond the fourth decimal are dropped.       *)
(***************************************************************************)
Unit == 10000

NaN == [nan |-> TRUE, v |-> 0]

Num(v) == [nan |-> FALSE, v |-> v]

\* the longest prefix of s made of digits
RECURSIVE digitPrefix(_)
digitPrefix(s) ==
  IF s # <<>> /\ IsDigit(Head(s)) THEN <<Head(s)>> \o digitPrefix(Tail(s)) ELSE <<>>

RECURSIVE digitsValue(_, _)
digitsValue(ds, acc) ==
  IF ds = <<>> THEN acc ELSE digitsValue(Tail(ds), 10 * acc + DigitVal(Head(ds)))

\* value of the fraction digits fs in units of 1/Unit
fractionValue(fs) ==
  LET four == SubSeq(fs \o <<"0", "0", "0", "0">>, 1, 4)
  IN digitsValue(four, 0)

\* The numeral at the start of a string: an optional sign, digits, an
\* optional fraction.  nan: it has no digit; v: its value; whole: nothing
\* follows it.
numeralValue(neg, ip, fp, point, len) ==
  [nan |-> ip = <<>> /\ fp = <<>>,
   v |-> (IF neg THEN -1 ELSE 1) * (digitsValue(ip, 0) * Unit + fractionValue(fp)),
   whole |-> Len(ip) + (IF point THEN 1 + Len(fp) ELSE 0) = len]

\* r1 is what follows the integer digits ip
numeralFraction(neg, ip, r1, len) ==
  numeralValue(neg, ip,
               IF r1 # <<>> /\ Head(r1) = "." THEN digitPrefix(Tail(r1)) ELSE <<>>,
               r1 # <<>> /\ Head(r1) = ".", len)

numeralDigits(neg, s1, ip) ==
  numeralFraction(neg, ip, SubSeq(s1, Len(ip) + 1, Len(s1)), Len(s1))

\* s1 is what follows the sign
numeralUnsigned(neg, s1) == numeralDigits(neg, s1, digitPrefix(s1))

numeral(s0) ==
  numeralUnsigned(s0 # <<>> /\ Head(s0) = "-",
                  IF s0 # <<>> /\ Head(s0) \in {"-", "+"} THEN Tail(s0) ELSE s0)

floatOf(n) == IF n.nan THEN NaN ELSE Num(n.v)

wholeOf(n) == IF n.nan \/ ~n.whole THEN NaN ELSE Num(n.v)

numberOf(s0) == IF s0 = <<>> THEN Num(0) ELSE wholeOf(numeral(s0))

\* parseFloat: leading blanks, an optional sign, digits, an optional
\* fraction; what follows is ignored; NaN without any digit
parseFloat(str) == floatOf(numeral(trimStart(str)))

\* Number(str): the whole trimmed string must be a numeral; "" is 0
Number(str) == numberOf(trim(str))

\* n.toFixed(2): two decimals, halves rounded away from zero
toFixed2(n) ==
  IF n.nan THEN <<"N", "a", "N">>
  ELSE LET mag == IF n.v < 0 THEN 0 - n.v ELSE n.v
           cents == (mag + (Unit \div 200)) \div (Unit \div 100)
           frac == cents % 100
       IN (IF n.v < 0 /\ cents > 0 THEN <<"-">> ELSE <<>>)
          \o NumStr(cents \div 100) \o <<".">>
          \o <<DigitChars[(frac \div 10) + 1], DigitChars[(frac % 10) + 1]>>

\* toMoneyString of the create path: '0.00' for what does not parse
toMoneyString(val) ==
  LET cleaned == trim(val)
      kept == SelectSeq(cleaned, LAMBDA c : IsDigit(c) \/ c \in {".", "-"})
      num == parseFloat(kept)
  IN IF cleaned = <<>> THEN S_0_00
     ELSE IF num.nan THEN S_0_00
     ELSE toFixed2(num)

\* parseFloat(cleaned.replace(/[^0-9.\-]/g, ''))
cleanedNumber(val) ==
  parseFloat(SelectSeq(trim(val), LAMBDA c : IsDigit(c) \/ c \in {".", "-"}))

\* toMoneyString of updateShopifyProduct: undefined (here the empty string)
\* for what does not parse
updateToMoneyString(val) ==
  IF trim(val) = <<>> \/ cleanedNumber(val).nan THEN <<>>
  ELSE toFixed2(cleanedNumber(val))

(***************************************************************************)
(* Markup engine.  A condition is [field, operator, value, markupType,     *)
(* markupValue]; field, operator and markupType are TLA+ strings, value    *)
(* and markupValue are strings of the model.  A resolved field value is    *)
(* [kind |-> "undef" | "str" | "arr", s |-> a string, a |-> an array].     *)
(***************************************************************************)
Undef == [kind |-> "undef", s |-> <<>>, a |-> <<>>]

StrVal(s) == [kind |-> "str", s |-> s, a |-> <<>>]

ArrVal(a) == [kind |-> "arr", s |-> <<>>, a |-> a]

\* a property that holds a string, undefined when the string is missing
PropStr(s) == IF s = <<>> THEN Undef ELSE StrVal(s)

\* product[field], and the dotted walk for a field that contains '.'
genericLookup(product, field) ==
  CASE field = "title" -> StrVal(product.title)
    [] field = "vendor" -> StrVal(product.vendor)
    [] field = "productType" -> StrVal(product.productType)
    [] field = "status" -> StrVal(product.status)
    [] field = "tags" -> IF product.tagsDefined THEN ArrVal(product.tags) ELSE Undef
    [] field = "price" -> PropStr(product.price)
    [] field = "variants.0.price" ->
         IF product.variants = <<>> THEN Undef ELSE StrVal(product.variants[1].price)
    [] field = "variants.0.sku" ->
         IF product.variants = <<>> THEN Undef ELSE StrVal(product.variants[1].sku)
    [] OTHER -> Undef

\* the per-field overrides of checkCondition, in the order of the code;
\* v is the value found so far
priceField(product, field, v) ==
  IF field \in {"price", "Variant Price"}
  THEN IF product.variants # <<>> /\ product.variants[1].price # <<>>
       THEN StrVal(product.variants[1].price)
       ELSE IF product.price # <<>> THEN StrVal(product.price) ELSE v
  ELSE v

titleField(product, field, v) ==
  IF field \in {"Title", "title"} THEN StrVal(product.title) ELSE v

skuField(product, field, v) ==
  IF field \in {"SKU", "sku"}
  THEN IF product.variants # <<>> /\ product.variants[1].sku # <<>>
       THEN StrVal(product.variants[1].sku)
       ELSE v
  ELSE v

tagsField(product, field, v) ==
  IF field \in {"Tags", "tags", "tag"} /\ product.tagsDefined
  THEN ArrVal(product.tags) ELSE v

vendorField(product, field, v) ==
  IF field \in {"Vendor", "vendor"} THEN StrVal(product.vendor) ELSE v

typeField(product, field, v) ==
  IF field \in {"Type", "type"} THEN StrVal(product.productType) ELSE v

\* the value checkCondition compares
resolveField(product, field) ==
  typeField(product, field,
    vendorField(product, field,
      tagsField(product, field,
        skuField(product, field,
          titleField(product, field,
            priceField(product, field, genericLookup(product, field)))))))

\* String(array): the elements joined by ","
RECURSIVE joinComma(_)
joinComma(a) ==
  IF a = <<>> THEN <<>>
  ELSE IF Len(a) = 1 THEN a[1]
  ELSE a[1] \o <<",">> \o joinComma(Tail(a))

\* s.split('-'): the pieces between the dashes
RECURSIVE splitDash(_, _)
splitDash(s, acc) ==
  IF s = <<>> THEN <<acc>>
  ELSE IF Head(s) = "-"
       THEN <<acc>> \o splitDash(Tail(s), <<>>)
       ELSE splitDash(Tail(s), Append(acc, Head(s)))

\* the comparison of the tags array: some tag, lower-cased, against the
\* trimmed lower-cased condition value
checkTags(tags, operator, conditionValueStr) ==
  LET some(P(_)) == \E k \in 1..Len(tags) : P(toLowerCase(tags[k]))
  IN CASE operator \in {"eq", "equals"} ->
            some(LAMBDA t : t = conditionValueStr)
       [] operator \in {"neq", "not_equals"} ->
            ~some(LAMBDA t : t = conditionValueStr)
       [] operator \in {"starts", "starts_with"} ->
            some(LAMBDA t : startsWith(t, conditionValueStr))
       [] operator \in {"ends", "ends_with"} ->
            some(LAMBDA t : endsWith(t, conditionValueStr))
       [] operator = "contains" ->
            some(LAMBDA t : includes(t, conditionValueStr))
       [] operator \in {"ncontains", "not_contains"} ->
            ~some(LAMBDA t : includes(t, conditionValueStr))
       [] OTHER -> FALSE

\* case 'between': min and max are the Numbers of the pieces of "min-max"
betweenRange_Closed(numValue, min, hasMax, max) ==
  /\ ~numValue.nan /\ ~min.nan /\ numValue.v >= min.v
  /\ hasMax /\ ~max.nan /\ numValue.v <= max.v

betweenRange(numValue, min, hasMax, max) ==
  /\ ~numValue.nan /\ ~min.nan /\ numValue.v >= min.v
  /\ hasMax
  /\ \/ (~max.nan /\ max.v = 0)
     \/ (~max.nan /\ numValue.v <= max.v)

between(numValue, parts) ==
  betweenRange(numValue, Number(parts[1]), Len(parts) >= 2,
               IF Len(parts) >= 2 THEN Number(parts[2]) ELSE NaN)

\* the same with "gt" and "lt" read as comparisons of numbers
compareStrings_Ordered(operator, pv, cv) ==
  CASE operator \in {"eq", "equals"} -> pv = cv
    [] operator \in {"neq", "not_equals"} -> pv # cv
    [] operator \in {"starts", "starts_with"} -> startsWith(pv, cv)
    [] operator \in {"ends", "ends_with"} -> endsWith(pv, cv)
    [] operator = "contains" -> includes(pv, cv)
    [] operator \in {"ncontains", "not_contains"} -> ~includes(pv, cv)
    [] operator = "gt" -> parseFloat(pv).v > parseFloat(cv).v
    [] operator = "lt" -> parseFloat(pv).v < parseFloat(cv).v
    [] OTHER -> FALSE

\* the switch on the operator for lower-cased strings pv and cv
compareStrings(operator, pv, cv) ==
  CASE operator \in {"eq", "equals"} -> pv = cv
    [] operator \in {"neq", "not_equals"} -> pv # cv
    [] operator \in {"starts", "starts_with"} -> startsWith(pv, cv)
    [] operator \in {"ends", "ends_with"} -> endsWith(pv, cv)
    [] operator = "contains" -> includes(pv, cv)
    [] operator \in {"ncontains", "not_contains"} -> ~includes(pv, cv)
    [] OTHER -> FALSE

checkString(operator, productValueStr, conditionValueStr) ==
  IF operator = "between"
  THEN between(parseFloat(productValueStr), splitDash(conditionValueStr, <<>>))
  ELSE compareStrings(operator, toLowerCase(productValueStr),
                      toLowerCase(conditionValueStr))

\* checkCondition once the field's value is resolved
checkValue(productValue, field, operator, value) ==
  IF productValue.kind = "undef" THEN FALSE
  ELSE IF field \in {"Tags", "tags", "tag"} /\ productValue.kind = "arr"
  THEN checkTags(productValue.a, operator, toLowerCase(trim(value)))
  ELSE checkString(operator,
                   trim(IF productValue.kind = "arr" THEN joinComma(productValue.a)
                        ELSE productValue.s),
                   trim(value))

checkCondition_Always(product, condition) == TRUE

checkCondition(product, condition) ==
  checkValue(resolveField(product, condition.field), condition.field,
             condition.operator, condition.value)

\* v * hundredths / Unit, computed on the whole and the fractional part of
\* v apart so that no product leaves the integers of the checker
percentOf(v, hundredths) ==
  (v \div Unit) * hundredths + ((v % Unit) * hundredths) \div Unit

\* the price after the markup; NaN when the current price is
markedUpPrice_Additive(currentPrice, markupValue, isPercent) ==
  IF currentPrice.nan THEN NaN ELSE Num(currentPrice.v + markupValue.v)

markedUpPrice(currentPrice, markupValue, isPercent) ==
  IF currentPrice.nan THEN NaN
  ELSE IF isPercent
       THEN Num(currentPrice.v + percentOf(currentPrice.v, markupValue.v \div 100))
       ELSE Num(currentPrice.v + markupValue.v)

\* the condition matches, its markup is valid and changes the price
\* (newPrice !== currentPrice: NaN differs from itself)
markupApplies(product, condition, markupValue, currentPrice, newPrice) ==
  /\ checkCondition(product, condition)
  /\ ~markupValue.nan /\ markupValue.v > 0
  /\ condition.markupType \in {"percent", "percentage", "fixed"}
  /\ newPrice.nan \/ newPrice.v # currentPrice.v

\* one iteration of the scan; threw: the price assignment raised
markupStep(product, condition, markupValue, currentPrice, newPrice) ==
  [applies |-> markupApplies(product, condition, markupValue, currentPrice, newPrice),
   threw |-> product.variants = <<>>,
   product |-> IF product.variants = <<>> THEN product
               ELSE [product EXCEPT !.variants[1].price = toFixed2(newPrice),
                                    !.markupApplied = TRUE]]

markupPrices(product, condition, markupValue, currentPrice) ==
  markupStep(product, condition, markupValue, currentPrice,
             markedUpPrice(currentPrice, markupValue,
                           condition.markupType \in {"percent", "percentage"}))

markupOf(product, condition) ==
  markupPrices(product, condition,
               parseFloat(Or3(condition.markupValue, condition.value, <<"0">>)),
               parseFloat(IF product.variants # <<>>
                          THEN Or2(product.variants[1].price, <<"0">>)
                          ELSE <<"0">>))

\* the scan for the first condition that matches and carries a valid markup;
\* result: [threw |-> the price assignment raised, product |-> the product]
RECURSIVE applyFirstMarkup(_, _)
firstMarkupFrom(product, conditions, step) ==
  IF step.applies THEN [threw |-> step.threw, product |-> step.product]
  ELSE applyFirstMarkup(product, Tail(conditions))

applyFirstMarkup(product, conditions) ==
  IF conditions = <<>> THEN [threw |-> FALSE, product |-> product]
  ELSE firstMarkupFrom(product, conditions, markupOf(product, Head(conditions)))

\* conditionsMatch: every condition ('all') or some condition of the list
conditionsMatch(product, conditions, conditionsType) ==
  IF conditionsType = "all"
  THEN \A k \in 1..Len(conditions) : checkCondition(product, conditions[k])
  ELSE \E k \in 1..Len(conditions) : checkCondition(product, conditions[k])

\* markupConfig is [conditions |-> a sequence, conditionsType |-> "all" | "any"]
applyMarkupRules(product, markupConfig) ==
  IF Len(markupConfig.conditions) = 0 THEN [threw |-> FALSE, product |-> product]
  ELSE IF conditionsMatch(product, markupConfig.conditions, markupConfig.conditionsType)
  THEN applyFirstMarkup(product, markupConfig.conditions)
  ELSE [threw |-> FALSE, product |-> product]

(***************************************************************************)
(* Request payloads.                                                       *)
(***************************************************************************)
RowA == (K_Title :> <<"a">>) @@ (K_SKU :> <<"1">>) @@ (K_VariantPrice :> S_10_00)

RowB == (K_Title :> <<"b">>) @@ (K_SKU :> <<"2">>)
        @@ (K_VariantPrice :> <<"2", "0", ".", "0", "0">>)
        @@ (K_ImageURL :> <<"u">>)

\* a row without SKU: its SKU is synthesized from its position
RowC == (K_Title :> <<"a">>)

RowSet == {RowA, RowB, RowC}

\* rows with a title and a price only
RowTitleA == (K_Title :> <<"A">>) @@ (K_VariantPrice :> S_10_00)

RowTitleB == (K_Title :> <<"B">>) @@ (K_VariantPrice :> <<"2", "0", ".", "0", "0">>)

RECURSIVE SeqsUpTo(_, _)
SeqsUpTo(S, n) ==
  IF n = 0 THEN {<<>>}
  ELSE LET shorter == SeqsUpTo(S, n - 1)
       IN shorter \cup {Append(q, x) : q \in {t \in shorter : Len(t) = n - 1}, x \in S}

Token(key, value) == key \o <<":", ":">> \o value

NoMarkup == [conditions |-> <<>>, conditionsType |-> "any"]

\* title eq "a" / fixed 5
FixedOnTitleA ==
  [conditions |-> <<[field |-> "title", operator |-> "eq", value |-> <<"a">>,
                     markupType |-> "fixed", markupValue |-> <<"5">>]>>,
   conditionsType |-> "any"]

\* title eq "A" / fixed 5
FixedOnTitleUpperA ==
  [conditions |-> <<[field |-> "title", operator |-> "eq", value |-> <<"A">>,
                     markupType |-> "fixed", markupValue |-> <<"5">>]>>,
   conditionsType |-> "any"]

\* title neq "zz" / fixed 5: matches every product
FixedOnAll ==
  [conditions |-> <<[field |-> "title", operator |-> "neq", value |-> <<"z">>,
                     markupType |-> "fixed", markupValue |-> <<"5">>]>>,
   conditionsType |-> "all"]

Payload(dataSource, hasCsvData, rows, hasApiCredentials, tokens, keyMappings,
        markupConfig, importConfig, totalProducts) ==
  [dataSource |-> dataSource, hasCsvData |-> hasCsvData,
   csvData |-> [isArray |-> TRUE, rows |-> rows],
   hasApiCredentials |-> hasApiCredentials, tokens |-> tokens,
   keyMappings |-> keyMappings, markupConfig |-> markupConfig,
   importConfig |-> importConfig, totalProducts |-> totalProducts]

CsvPayloads ==
  {Payload("csv", TRUE, rows, FALSE, <<>>, <<>>, NoMarkup, "draft", Len(rows)) :
     rows \in SeqsUpTo(RowSet, MaxRows)}
  \cup
  {Payload("csv", TRUE, <<RowA, RowB>>, FALSE, tokens, <<>>, FixedOnTitleA, "published", 5) :
     tokens \in {<<Token(K_Title, <<"b">>)>>, <<Token(K_SKU, <<"9">>)>>,
                 <<Token(K_SKU, <<"2">>), Token(K_Title, <<"a">>)>>}}

\* two titled rows, no selector token, one markup condition on the title
EndToEndPayload ==
  Payload("csv", TRUE, <<RowTitleA, RowTitleB>>, FALSE, <<>>, <<>>, FixedOnTitleUpperA,
          "draft", 2)

ApiPayloads ==
  {Payload("api", FALSE, <<>>, TRUE, <<>>, keyMappings, NoMarkup, "draft", 1) :
     keyMappings \in {<<>>, <<<<K_name, "title">>>>}}

\* no usable data source: the invalid-source fallback product
OtherPayloads ==
  {Payload("csv", FALSE, <<>>, FALSE, <<>>, <<>>, markupConfig, "draft", 0) :
     markupConfig \in {NoMarkup, FixedOnAll}}

Payloads == CsvPayloads \cup {EndToEndPayload} \cup ApiPayloads \cup OtherPayloads

\* the payloads of the specifications with several requests
RepeatPayloads ==
  {Payload("csv", TRUE, rows, FALSE, <<>>, <<>>, NoMarkup, "draft", Len(rows)) :
     rows \in {<<RowA>>, <<RowC, RowB>>}}
  \cup {Payload("csv", FALSE, <<>>, FALSE, <<>>, <<>>, FixedOnAll, "draft", 0)}

\* Payloads that exercise the markup engine: one row "a" at one of a few
\* prices (cents is the price in hundredths) and up to MaxConditions
\* conditions out of a few.
MarkupPrices ==
  {[s |-> <<"0">>, cents |-> 0],
   [s |-> <<"1", "0">>, cents |-> 1000],
   [s |-> <<"1", "9", ".", "9", "9">>, cents |-> 1999],
   [s |-> <<"5", "0">>, cents |-> 5000],
   [s |-> <<"7", "5">>, cents |-> 7500],
   [s |-> <<"1", "0", "0", ".", "0", "0">>, cents |-> 10000],
   [s |-> <<"9", "9", "9", "9">>, cents |-> 999900]}

MarkupRow(price) ==
  (K_Title :> <<"a">>) @@ (K_SKU :> <<"1">>) @@ (K_VariantPrice :> price)

Condition(field, operator, value, markupType, markupValue) ==
  [field |-> field, operator |-> operator, value |-> value,
   markupType |-> markupType, markupValue |-> markupValue]

PercentTen == Condition("title", "eq", <<"a">>, "percent", <<"1", "0">>)

FixedFive == Condition("title", "eq", <<"a">>, "fixed", <<"5">>)

FixedFiveOnB == Condition("title", "eq", <<"b">>, "fixed", <<"5">>)

FixedZero == Condition("title", "eq", <<"a">>, "fixed", <<"0">>)

\* price between "min-max" / fixed 5
BetweenCondition(min, max) ==
  Condition("price", "between", NumStr(min) \o <<"-">> \o NumStr(max), "fixed", <<"5">>)

BetweenRanges == {<<50, 100>>, <<50, 0>>}

\* price between "50-100" / fixed, without a markupValue
BetweenUnvalued ==
  Condition("price", "between", <<"5", "0", "-", "1", "0", "0">>, "fixed", <<>>)

\* the operators "gt" and "lt" of the configuration step, on the price
PriceGreater == Condition("price", "gt", <<"5">>, "fixed", <<"5">>)

PriceLess == Condition("price", "lt", <<"9", "9", "9", "9", "9">>, "fixed", <<"5">>)

\* a field no product has, under the negative operators
CostNotEqual == Condition("cost_price", "neq", <<"x">>, "fixed", <<"5">>)

CostNotContains == Condition("cost_price", "ncontains", <<"x">>, "fixed", <<"5">>)

InertConditions == {PriceGreater, PriceLess, CostNotEqual, CostNotContains}

MarkupConditions ==
  {PercentTen, FixedFive, FixedFiveOnB, FixedZero, BetweenUnvalued} \cup InertConditions
    \cup {BetweenCondition(range[1], range[2]) : range \in BetweenRanges}

MarkupPayloads ==
  {Payload("csv", TRUE, <<MarkupRow(price.s)>>, FALSE, <<>>, <<>>,
           [conditions |-> conditions, conditionsType |-> conditionsType], "draft", 1) :
     price \in MarkupPrices, conditions \in SeqsUpTo(MarkupConditions, MaxConditions),
     conditionsType \in {"any", "all"}}
  \cup {Payload("csv", TRUE, <<RowA, RowA>>, FALSE, <<>>, <<>>, FixedOnTitleA, "draft", 2),
         Payload("csv", FALSE, <<>>, FALSE, <<>>, <<>>, FixedOnAll, "draft", 0)}

\* Payloads that exercise the selection filter: three records with distinct
\* titles and up to MaxTokens selector tokens out of a few, for the keys of
\* the CSV rows and for the keys of the API items.
SelectRows ==
  <<(K_Title :> <<"a", "b">>) @@ (K_SKU :> <<"1">>),
    (K_Title :> <<" ", "B", " ">>) @@ (K_SKU :> <<"2">>) @@ (K_Vendor :> <<"y">>),
    (K_Title :> <<"c">>)>>

SelectItems ==
  <<(K_name :> <<"a", "b">>) @@ (K_sku :> <<"1">>),
    (K_name :> <<" ", "B", " ">>) @@ (K_sku :> <<"2">>) @@ (K_vendor :> <<"y">>),
    (K_name :> <<"c">>)>>

SelectTokens(titleKey, skuKey, vendorKey) ==
  {Token(titleKey, <<"b">>), Token(titleKey, <<"a", "b", "c">>),
   Token(titleKey, <<" ", "B", " ">>), Token(titleKey, <<"z", "z">>),
   Token(titleKey, <<"c">>),
   Token(skuKey, <<"1">>), Token(vendorKey, <<"x">>),
   titleKey, Token(titleKey, <<>>), Token(<<>>, <<"b">>)}

SelectCsvPayloads ==
  {Payload("csv", TRUE, SelectRows, FALSE, tokens, <<>>, NoMarkup, "draft", 3) :
     tokens \in SeqsUpTo(SelectTokens(K_Title, K_SKU, K_Vendor), MaxTokens)}

SelectApiPayloads ==
  {Payload("api", FALSE, <<>>, TRUE, tokens, <<>>, NoMarkup, "draft", 3) :
     tokens \in SeqsUpTo(SelectTokens(K_name, K_sku, K_vendor), MaxTokens)}

\* Payloads whose products would carry more than 250 tags: a row whose Tags
\* cell has 300 comma-separated entries, and 300 selector tokens that match
\* the API items.
ManyTags == 300

TagPayloads ==
  {Payload("csv", TRUE,
           <<(K_Title :> <<"a">>) @@ (K_SKU :> <<"1">>)
               @@ (K_Tags :> [k \in 1..(2 * ManyTags - 1) |->
                                IF k % 2 = 1 THEN "t" ELSE ","])>>,
           FALSE, <<>>, <<>>, NoMarkup, "draft", 1),
   Payload("api", FALSE, <<>>, TRUE, [k \in 1..ManyTags |-> Token(K_name, <<"b">>)],
           <<>>, NoMarkup, "draft", 3)}

\* Payloads with one condition on the tags: the products carry the value of
\* the one selector token as their only tag, with or without blanks around it
TagOperators == {"eq", "neq", "starts", "ends", "contains", "ncontains"}

TagConditionPayloads ==
  {Payload("csv", TRUE, SelectRows, FALSE, <<Token(K_Title, value)>>, <<>>,
           [conditions |-> <<Condition("tags", operator, <<"b">>, "fixed", <<"5">>)>>,
            conditionsType |-> "any"], "draft", 3) :
     value \in {<<"B">>, <<" ", "B", " ">>}, operator \in TagOperators}

(***************************************************************************)
(* ImportFilterStep.  selected is the component's selection state: the     *)
(* entries of the object in insertion order, each [key |-> an attribute,   *)
(* values |-> the values ticked for it].                                   *)
(***************************************************************************)
\* computedCsvAttributes: the values offered for a header are the trimmed,
\* non-empty cells of its column
attributeValues(rows, header) ==
  {trim(Get(rows[i], header)) : i \in 1..Len(rows)} \ {<<>>}

\* the row passes every attribute that has values: its cell is one of them
rowPasses(row, selected) ==
  \A e \in 1..Len(selected) :
     \/ Len(selected[e].values) = 0
     \/ \E v \in 1..Len(selected[e].values) : selected[e].values[v] = Get(row, selected[e].key)

willImportCount(rows, selected) ==
  IF Len(selected) = 0 THEN Len(rows)
  ELSE Cardinality({i \in 1..Len(rows) : rowPasses(rows[i], selected)})

\* the selector tokens the step hands to onFiltersChange
RECURSIVE selectedValues(_)
selectedValues(selected) ==
  IF selected = <<>> THEN <<>>
  ELSE [v \in 1..Len(Head(selected).values) |->
          Token(Head(selected).key, Head(selected).values[v])]
       \o selectedValues(Tail(selected))

\* onToggleValue: the value lists an attribute can hold, none repeated and
\* never empty (an attribute left without values is deleted)
TickedValues(rows, header) ==
  {values \in SeqsUpTo(attributeValues(rows, header), MaxTokens) :
     /\ values # <<>>
     /\ \A a \in 1..Len(values), b \in 1..Len(values) : a # b => values[a] # values[b]}

\* the selection states over the headers Title and SKU
Selections(rows) ==
  {<<>>}
  \cup {<<[key |-> K_Title, values |-> t]>> : t \in TickedValues(rows, K_Title)}
  \cup {<<[key |-> K_SKU, values |-> u]>> : u \in TickedValues(rows, K_SKU)}
  \cup {<<[key |-> K_Title, values |-> t], [key |-> K_SKU, values |-> u]>> :
          t \in TickedValues(rows, K_Title), u \in TickedValues(rows, K_SKU)}

\* the requests that follow the filter step: the tokens it emitted, and as
\* totalProducts the count it displayed and passed on
FilterStepPayloads ==
  {Payload("csv", TRUE, SelectRows, FALSE, selectedValues(selected), <<>>, NoMarkup,
           "draft", willImportCount(SelectRows, selected)) :
     selected \in Selections(SelectRows)}

SelectPayloads ==
  SelectCsvPayloads \cup SelectApiPayloads \cup TagPayloads \cup TagConditionPayloads
    \cup FilterStepPayloads
  \cup {Payload("csv", TRUE, <<RowA, RowA>>, FALSE, <<>>, <<>>, FixedOnTitleA, "draft", 2),
         Payload("csv", FALSE, <<>>, FALSE, <<>>, <<>>, FixedOnAll, "draft", 0)}

MenuPayloads(menu) ==
  CASE menu = "all" -> Payloads
    [] menu = "markup" -> MarkupPayloads
    [] menu = "select" -> SelectPayloads
    [] OTHER -> RepeatPayloads

ItemA == (K_name :> <<"a">>) @@ (K_sku :> <<"1">>) @@ (K_price :> S_10_00)

ApiResponses ==
  {[ok |-> FALSE, items |-> <<>>], [ok |-> TRUE, items |-> <<>>],
   [ok |-> TRUE, items |-> <<ItemA>>]}

SelectResponses ==
  {[ok |-> FALSE, items |-> <<>>], [ok |-> TRUE, items |-> SelectItems]}

MenuResponses(menu) == IF menu = "select" THEN SelectResponses ELSE ApiResponses

Shops == {"shop1"}

Slots == {1, 2}

(***************************************************************************)
(* Source resolution of bulkCreateProducts.                                *)
(***************************************************************************)
finalStatus(importConfig) == IF importConfig = "published" THEN "ACTIVE" ELSE "DRAFT"

fallbackProduct(importConfig) ==
  [Product(S_ImportedProduct, <<>>, <<>>, <<>>, <<>>, S_10_00)
     EXCEPT !.tagsDefined = FALSE, !.status = finalStatus(importConfig)]

demoProduct(importConfig) ==
  [Product(S_DemoTitle, S_DemoVendor, S_Test, <<S_demo, S_test>>,
           <<Variant(S_10_00, S_DemoSku, <<>>)>>, <<>>)
     EXCEPT !.status = finalStatus(importConfig)]

sourceProducts(payload, response) ==
  IF payload.dataSource = "csv" /\ payload.hasCsvData
  THEN processCsvData(payload.csvData, payload.tokens)
  ELSE IF payload.dataSource = "api" /\ payload.hasApiCredentials
  THEN fetchApiData(response, payload.tokens, payload.keyMappings)
  ELSE <<fallbackProduct(payload.importConfig)>>

\* the demo product replaces an empty list
withDemoFallback_None(products, importConfig) == products

withDemoFallback(products, importConfig) ==
  IF Len(products) = 0 THEN <<demoProduct(importConfig)>> ELSE products

(***************************************************************************)
(* State.                                                                  *)
(*   sessions         the ImportSession table; a session's id is its index *)
(*   importedProduct  the ImportedProduct table, in insertion order        *)
(*   catalog          the products of the catalog API; an id is an index;  *)
(*                    price is the first-variant price last sent for it    *)
(*   connections      number of rows of the Connection table               *)
(*   run              per request slot, the locals of the running action   *)
(*   quota            requests a slot may still start                      *)
(*   lastRead         the latest getProgress response of the polling       *)
(*                    client and the session it asked for                  *)
(*   env              the environment: the payloads clients send and the   *)
(*                    failures of external calls a request may meet        *)
(*   importedLog      history: the items counted as imported, as           *)
(*                    [session, sku, title]                                *)
(***************************************************************************)
VARIABLES sessions, importedProduct, catalog, connections, run, quota, lastRead, env,
          importedLog

vars == <<sessions, importedProduct, catalog, connections, run, quota, lastRead, env,
          importedLog>>

NoRecord == 0

\* what happened to the item being processed (history, reset for every item):
\* path is the latest of productUpdate / productCreate that was called,
\* priceSent the price of the variant input sent with it (<<>>: none),
\* succeeded says the catalog product was created or updated
NoFx ==
  [path |-> "none", found |-> FALSE, lookupFailed |-> FALSE, recordsAtLookup |-> 0,
   updateFailed |-> FALSE, succeeded |-> FALSE, variantErr |-> FALSE, publishFailed |-> FALSE,
   sessionWriteFailed |-> FALSE, recordWriteFailed |-> FALSE, priceSent |-> <<>>]

IdleRun ==
  [pc |-> "idle", auth |-> "none", data |-> "none", sourceCount |-> 0, shop |-> "", payload |-> Payload("csv", FALSE, <<>>, FALSE, <<>>, <<>>,
                                                    NoMarkup, "draft", 0),
   sessionId |-> 0, connectionId |-> 0, productsToProcess |-> <<>>, i |-> 1,
   importedCount |-> 0, failedCount |-> 0, results |-> <<>>,
   processedProduct |-> fallbackProduct("draft"), existingProduct |-> NoRecord,
   productId |-> 0, faults |-> 0, catalogCalls |-> 0, fx |-> NoFx,
   abortCause |-> "none", response |-> "none", items |-> <<>>]

NoRead ==
  [sessionId |-> 0, imported |-> 0, failed |-> 0, totalProducts |-> 0,
   currentProduct |-> <<>>, status |-> "pending"]

(***************************************************************************)
(* Record store writes.                                                    *)
(***************************************************************************)
\* prisma.importSession.create: counters default to 0, completedAt to null;
\* writes counts the writes applied to the row (history)
sessionCreateData(shop, payload) ==
  [shop |-> shop, status |-> "running", importedProducts |-> 0, failedProducts |-> 0,
   totalProducts |-> payload.totalProducts, completedAt |-> 0, writes |-> 0]

\* prisma.importSession.update: the fields of data replace the row's
sessionUpdate(table, id, data) ==
  [table EXCEPT ![id] = [data @@ table[id] EXCEPT !.writes = table[id].writes + 1]]

\* the update issued before every item (outside the per-item try)
preItemData_NoCounts(r) ==
  [status |-> "processing", importedProducts |-> 0, failedProducts |-> 0,
   totalProducts |-> Len(r.productsToProcess)]

preItemData(r) ==
  [status |-> "processing", importedProducts |-> r.importedCount,
   failedProducts |-> r.failedCount, totalProducts |-> Len(r.productsToProcess)]

\* the update issued after a successful item and in the per-item catch
progressData_Running(r) ==
  [importedProducts |-> r.importedCount, failedProducts |-> r.failedCount,
   status |-> "running"]

progressData(r) ==
  [importedProducts |-> r.importedCount, failedProducts |-> r.failedCount,
   status |-> "processing"]

\* the update issued after the loop; completedAt counts the stamps
finalData(r, old) ==
  [importedProducts |-> r.importedCount, failedProducts |-> r.failedCount,
   status |-> "completed", completedAt |-> old.completedAt + 1]

importedProductData(r) ==
  [shop |-> r.shop, importSessionId |-> r.sessionId, shopifyProductId |-> r.productId,
   title |-> r.processedProduct.title,
   sku |-> IF r.processedProduct.variants # <<>>
           THEN r.processedProduct.variants[1].sku ELSE <<>>]

(***************************************************************************)
(* checkProductInDatabase: the records findFirst may return, by SKU first  *)
(* and by title when no record has the SKU; findFirst has no orderBy, so   *)
(* any matching record may be the one returned.                            *)
(***************************************************************************)
checkProductInDatabase_NoLookup(table, shop, sku, title) == {}

checkProductInDatabase_SkuOnly(table, shop, sku, title) ==
  {k \in 1..Len(table) : table[k].shop = shop /\ sku # <<>> /\ table[k].sku = sku}

checkProductInDatabase(table, shop, sku, title) ==
  LET bySku == {k \in 1..Len(table) : table[k].shop = shop /\ table[k].sku = sku}
      byTitle == {k \in 1..Len(table) : table[k].shop = shop /\ table[k].title = title}
  IN IF sku # <<>> /\ bySku # {} THEN bySku
     ELSE IF title # <<>> THEN byTitle
     ELSE {}

(***************************************************************************)
(* Control flow of the action.                                             *)
(***************************************************************************)
\* the shop check and the payload checks that precede the session create
requestAccepted_AnyData(auth, data) == auth = "ok" /\ data # "missing"

requestAccepted(auth, data) == auth = "ok" /\ data = "ok"

rejectionStatus(auth, data) == IF auth # "ok" THEN "401" ELSE "400"

\* where an error thrown while an item is processed lands: the per-item catch
itemErrorTarget_Abort == "aborted"

itemErrorTarget == "catch"

\* where a failed importedProduct.create lands: its own catch, which only logs
recordWriteErrorTarget_Rethrow == "catch"

recordWriteErrorTarget == "continue"

\* an error that reaches the catch around the whole import: status 500
importError(r, cause) ==
  [r EXCEPT !.pc = "aborted", !.abortCause = cause, !.response = "500"]

itemError(r) ==
  IF itemErrorTarget = "catch" THEN [r EXCEPT !.pc = "catch"]
  ELSE importError(r, "item")

\* the loop header after an item: the next item, or the final update
nextItem(r) ==
  [r EXCEPT !.i = r.i + 1,
            !.pc = IF r.i + 1 > Len(r.productsToProcess) THEN "final" ELSE "pre"]

pushResult(r, success) ==
  [r EXCEPT !.results = Append(r.results, [item |-> r.i, success |-> success])]

useFault(r) == [r EXCEPT !.faults = r.faults - 1]

SetRun(slot, r) == run' = [run EXCEPT ![slot] = r]

(***************************************************************************)
(* action, case "bulkCreateProducts": from the request to the item loop.   *)
(***************************************************************************)
\* the failures of external calls the requests of a slot may still meet
faultsLeft(slot) == IF run[slot].pc = "idle" THEN env.faults ELSE run[slot].faults

StartImport(slot) ==
  /\ run[slot].pc \in {"idle", "done", "aborted", "rejected"}
  /\ quota[slot] > 0
  /\ quota' = [quota EXCEPT ![slot] = quota[slot] - 1]
  /\ \E auth \in {"ok", "noShop", "throws"}, data \in {"missing", "invalid", "ok"} :
       IF ~requestAccepted(auth, data)
       THEN /\ auth = "ok" \/ data = "ok"
            /\ SetRun(slot, [IdleRun EXCEPT !.pc = "rejected", !.auth = auth,
                                             !.data = data,
                                             !.faults = faultsLeft(slot),
                                             !.response = rejectionStatus(auth, data)])
            /\ UNCHANGED <<sessions, importedProduct, catalog, connections, lastRead, env, importedLog>>
       ELSE \E shop \in Shops, payload \in MenuPayloads(env.menu), created \in BOOLEAN :
              LET r0 == [IdleRun EXCEPT !.auth = auth, !.data = data,
                                        !.shop = shop, !.payload = payload,
                                        !.faults = faultsLeft(slot)]
              IN IF ~created
                 THEN /\ r0.faults > 0
                      /\ SetRun(slot, importError(useFault(r0), "store"))
                      /\ UNCHANGED <<sessions, importedProduct, catalog, connections,
                                     lastRead, env, importedLog>>
                 ELSE \E response \in MenuResponses(env.menu), connected \in BOOLEAN :
                        LET isApi == payload.dataSource = "api" /\ payload.hasApiCredentials
                            r1 == IF isApi /\ ~connected THEN useFault(r0) ELSE r0
                            source == sourceProducts(payload, response)
                            products == withDemoFallback(source, payload.importConfig)
                        IN /\ isApi \/ (connected /\ ~response.ok)
                           /\ connected \/ r0.faults > 0
                           /\ sessions' = Append(sessions, sessionCreateData(shop, payload))
                           /\ UNCHANGED <<lastRead, env, importedLog>>
                           /\ connections' = IF isApi /\ connected
                                             THEN connections + 1 ELSE connections
                           /\ SetRun(slot,
                                [r1 EXCEPT !.pc = IF Len(products) = 0 THEN "final"
                                                  ELSE "pre",
                                           !.sourceCount = Len(source),
                                           !.items = IF isApi /\ response.ok
                                                     THEN response.items ELSE <<>>,
                                           !.sessionId = Len(sessions) + 1,
                                           !.connectionId = IF isApi /\ connected
                                                            THEN connections + 1 ELSE 0,
                                           !.productsToProcess = products])
                           /\ UNCHANGED <<importedProduct, catalog>>

\* the progress update before an item; a store error here leaves the loop
PreItem(slot) ==
  LET r == run[slot]
  IN /\ r.pc = "pre"
     /\ \E ok \in BOOLEAN :
          IF ok
          THEN /\ sessions' = sessionUpdate(sessions, r.sessionId, preItemData(r))
               /\ SetRun(slot, [r EXCEPT !.pc = "item", !.fx = NoFx])
          ELSE /\ r.faults > 0
               /\ SetRun(slot, importError(useFault(r), "store"))
               /\ UNCHANGED sessions
     /\ UNCHANGED <<importedProduct, catalog, connections, quota, lastRead, env, importedLog>>

\* checkProductInDatabase for the marked-up product, by its first variant's
\* SKU and its title; a failed lookup returns null
lookupProcessed(slot, r, processedProduct, sku) ==
  \E ok \in BOOLEAN :
    /\ ok \/ r.faults > 0
    /\ \E existing \in
            (IF ok /\ checkProductInDatabase(importedProduct, r.shop, sku,
                                              processedProduct.title) # {}
             THEN checkProductInDatabase(importedProduct, r.shop, sku,
                                         processedProduct.title)
             ELSE {NoRecord}) :
         SetRun(slot,
           [(IF ok THEN r ELSE useFault(r)) EXCEPT
              !.processedProduct = processedProduct,
              !.existingProduct = existing,
              !.fx.found = (existing # NoRecord),
              !.fx.lookupFailed = ~ok,
              !.fx.recordsAtLookup = Len(importedProduct),
              !.pc = IF existing # NoRecord THEN "update" ELSE "create"])

\* the status assignment that follows applyMarkupRules
lookupMarked(slot, r, product) ==
  lookupProcessed(slot, r,
                  [product EXCEPT !.status = finalStatus(r.payload.importConfig)],
                  IF product.variants # <<>> THEN product.variants[1].sku ELSE <<>>)

\* an error raised by applyMarkupRules is caught by the per-item catch
afterMarkup(slot, r, marked) ==
  IF marked.threw THEN SetRun(slot, itemError(r))
  ELSE lookupMarked(slot, r, marked.product)

\* applyMarkupRules, the status assignment and checkProductInDatabase
LookupItem(slot) ==
  /\ run[slot].pc = "item"
  /\ afterMarkup(slot, run[slot],
                 applyMarkupRules(run[slot].productsToProcess[run[slot].i],
                                  run[slot].payload.markupConfig))
  /\ UNCHANGED <<sessions, importedProduct, catalog, connections, quota, lastRead, env, importedLog>>

\* the same without the increment of importedCount
published_Uncounted(r, path, publishOk) ==
  [(IF publishOk THEN r ELSE useFault(r)) EXCEPT
     !.fx.path = path, !.fx.succeeded = TRUE, !.fx.publishFailed = ~publishOk,
     !.pc = "sessUpd"]

\* publishProductToSalesChannels swallows every error; then importedCount++
published(r, path, publishOk) ==
  [(IF publishOk THEN r ELSE useFault(r)) EXCEPT
     !.fx.path = path, !.fx.succeeded = TRUE, !.fx.publishFailed = ~publishOk,
     !.importedCount = r.importedCount + 1, !.pc = "sessUpd"]

\* updateShopifyProduct for the record found; a failure falls through to create
UpdateProduct(slot) ==
  LET r == run[slot]
      id == importedProduct[r.existingProduct].shopifyProductId
      called == [r EXCEPT !.catalogCalls = r.catalogCalls + 1, !.fx.path = "update"]
      sku == IF r.processedProduct.variants # <<>>
             THEN r.processedProduct.variants[1].sku ELSE <<>>
      priceStr == updateToMoneyString(r.processedProduct.price)
      updated == [catalog EXCEPT ![id].title = r.processedProduct.title,
                                 ![id].updatedBy = r.sessionId]
      repriced == IF priceStr = <<>> THEN updated
                  ELSE [updated EXCEPT ![id].price = priceStr]
  IN /\ r.pc = "update"
     /\ \E outcome \in {"ok", "productUpdateFails", "variantUpdateThrows"},
           publishOk \in BOOLEAN :
          /\ (outcome = "ok" /\ publishOk) \/ r.faults > 0
          /\ outcome # "ok" => publishOk
          /\ catalog' = CASE outcome = "productUpdateFails" -> catalog
                          [] outcome = "variantUpdateThrows" -> updated
                          [] OTHER -> repriced
          /\ importedLog' = IF outcome = "ok"
                            THEN importedLog \cup {[session |-> r.sessionId, sku |-> sku,
                                                    title |-> r.processedProduct.title]}
                            ELSE importedLog
          /\ IF outcome = "ok"
             THEN SetRun(slot, published([called EXCEPT !.productId = id,
                                                        !.fx.priceSent = priceStr],
                                         "update", publishOk))
             ELSE SetRun(slot, [useFault(called) EXCEPT !.fx.updateFailed = TRUE,
                                                        !.pc = "create"])
     /\ UNCHANGED <<sessions, importedProduct, connections, quota, lastRead, env>>

\* productCreate, productCreateMedia, productVariantsBulkCreate and publishing
CreateProduct(slot) ==
  LET r == run[slot]
      p == r.processedProduct
      hasImages == \E k \in 1..Len(p.variants) : trim(p.variants[k].image_url) # <<>>
      called == [r EXCEPT !.catalogCalls = r.catalogCalls + 1, !.fx.path = "create"]
      entry == [title |-> p.title,
                sku |-> IF p.variants # <<>> THEN p.variants[1].sku ELSE <<>>,
                price |-> <<>>,
                createdBy |-> r.sessionId, updatedBy |-> 0]
      \* the product once productVariantsBulkCreate has set its variants
      priced == [entry EXCEPT !.price = IF p.variants # <<>>
                                        THEN toMoneyString(p.variants[1].price)
                                        ELSE <<>>]
  IN /\ r.pc = "create"
     /\ \E outcome \in {"ok", "createThrows", "createUserErrors", "mediaThrows",
                        "variantsThrow", "variantsUserErrors"},
           publishOk \in BOOLEAN :
          /\ (outcome = "ok" /\ publishOk) \/ r.faults > 0
          /\ outcome = "mediaThrows" => hasImages
          /\ outcome \in {"variantsThrow", "variantsUserErrors"} => p.variants # <<>>
          /\ outcome \notin {"ok", "variantsUserErrors"} => publishOk
          /\ outcome = "variantsUserErrors" /\ ~publishOk => r.faults > 1
          /\ catalog' = CASE outcome \in {"createThrows", "createUserErrors"} -> catalog
                          [] outcome = "ok" -> Append(catalog, priced)
                          [] OTHER -> Append(catalog, entry)
          /\ importedLog' = IF outcome \in {"ok", "variantsUserErrors"}
                            THEN importedLog \cup {[session |-> r.sessionId,
                                                    sku |-> entry.sku, title |-> p.title]}
                            ELSE importedLog
          /\ CASE outcome = "ok" ->
                    SetRun(slot, published([called EXCEPT !.productId = Len(catalog) + 1,
                                                          !.fx.priceSent = priced.price],
                                           "create", publishOk))
               [] outcome = "variantsUserErrors" ->
                    SetRun(slot,
                      published([useFault(called) EXCEPT !.productId = Len(catalog) + 1,
                                                         !.fx.variantErr = TRUE,
                                                         !.fx.priceSent = priced.price],
                                "create", publishOk))
               [] outcome = "createUserErrors" ->
                    SetRun(slot,
                      nextItem(pushResult([useFault(called) EXCEPT
                                             !.failedCount = r.failedCount + 1], FALSE)))
               [] OTHER -> SetRun(slot, itemError(useFault(called)))
     /\ UNCHANGED <<sessions, importedProduct, connections, quota, lastRead, env>>

\* the progress update after a successful item, inside its own try
UpdateSessionProgress(slot) ==
  LET r == run[slot]
  IN /\ r.pc = "sessUpd"
     /\ \E ok \in BOOLEAN :
          IF ok
          THEN /\ sessions' = sessionUpdate(sessions, r.sessionId, progressData(r))
               /\ SetRun(slot, [r EXCEPT !.pc = "saveRec"])
          ELSE /\ r.faults > 0
               /\ UNCHANGED sessions
               /\ SetRun(slot, [useFault(r) EXCEPT !.fx.sessionWriteFailed = TRUE,
                                                   !.pc = "saveRec"])
     /\ UNCHANGED <<importedProduct, catalog, connections, quota, lastRead, env, importedLog>>

\* prisma.importedProduct.create inside its own try, then results.push
SaveImportedProduct(slot) ==
  LET r == run[slot]
  IN /\ r.pc = "saveRec"
     /\ \E ok \in BOOLEAN :
          IF ok
          THEN /\ importedProduct' = Append(importedProduct, importedProductData(r))
               /\ SetRun(slot, nextItem(pushResult(r, TRUE)))
          ELSE /\ r.faults > 0
               /\ UNCHANGED importedProduct
               /\ LET failed == [useFault(r) EXCEPT !.fx.recordWriteFailed = TRUE]
                  IN IF recordWriteErrorTarget = "continue"
                     THEN SetRun(slot, nextItem(pushResult(failed, TRUE)))
                     ELSE SetRun(slot, itemError(failed))
     /\ UNCHANGED <<sessions, catalog, connections, quota, lastRead, env, importedLog>>

\* the per-item catch: failedCount++, an unguarded progress update, results.push
CatchItem(slot) ==
  LET r == run[slot]
      counted == [r EXCEPT !.failedCount = r.failedCount + 1]
  IN /\ r.pc = "catch"
     /\ \E ok \in BOOLEAN :
          IF ok
          THEN /\ sessions' = sessionUpdate(sessions, r.sessionId, progressData(counted))
               /\ SetRun(slot, nextItem(pushResult(counted, FALSE)))
          ELSE /\ r.faults > 0
               /\ UNCHANGED sessions
               /\ SetRun(slot, importError(useFault(counted), "store"))
     /\ UNCHANGED <<importedProduct, catalog, connections, quota, lastRead, env, importedLog>>

\* the update after the loop and the response
Finalize(slot) ==
  LET r == run[slot]
  IN /\ r.pc = "final"
     /\ \E ok \in BOOLEAN :
          IF ok
          THEN /\ sessions' = sessionUpdate(sessions, r.sessionId,
                                            finalData(r, sessions[r.sessionId]))
               /\ SetRun(slot, [r EXCEPT !.pc = "done", !.response = "200"])
          ELSE /\ r.faults > 0
               /\ UNCHANGED sessions
               /\ SetRun(slot, importError(useFault(r), "store"))
     /\ UNCHANGED <<importedProduct, catalog, connections, quota, lastRead, env, importedLog>>

(***************************************************************************)
(* loader, case "getProgress".                                             *)
(***************************************************************************)
\* title of the session's most recently created ImportedProduct
latestProductTitle(table, sessionId) ==
  LET own == {k \in 1..Len(table) : table[k].importSessionId = sessionId}
  IN IF own = {} THEN <<>>
     ELSE table[CHOOSE k \in own : \A j \in own : j <= k].title

S_Processing == <<"P", "r", "o", "c", "e", "s", "s", "i", "n", "g", ".", ".", ".">>

S_ImportCompleted == <<"I", "m", "p", "o", "r", "t", " ", "c", "o", "m", "p", "l", "e", "t", "e", "d">>

progressResponse(sessionId) ==
  LET currentSession == sessions[sessionId]
  IN [sessionId |-> sessionId,
      imported |-> currentSession.importedProducts,
      failed |-> currentSession.failedProducts,
      totalProducts |-> currentSession.totalProducts,
      currentProduct |-> IF currentSession.status = "processing"
                         THEN Or2(latestProductTitle(importedProduct, sessionId),
                                  S_Processing)
                         ELSE S_ImportCompleted,
      status |-> currentSession.status]

GetProgress(sessionId) ==
  /\ sessionId \in 1..Len(sessions)
  /\ lastRead' = progressResponse(sessionId)
  /\ UNCHANGED <<sessions, importedProduct, catalog, connections, run, quota, env,
               importedLog>>

(***************************************************************************)
(* Specifications.                                                         *)
(*   Spec            one request, any payload, up to MaxFaults failures    *)
(*   SpecRepeat      one slot serves MaxRequests requests one after the    *)
(*                   other, up to MaxRepeatFaults failures over them       *)
(*   SpecConcurrent  two slots serve one request each at the same time,    *)
(*                   and no external call fails                            *)
(*   SpecMarkup      one request of the markup payload family, and no      *)
(*                   external call fails                                   *)
(***************************************************************************)
InitStore ==
  /\ sessions = <<>>
  /\ importedProduct = <<>>
  /\ catalog = <<>>
  /\ connections = 0
  /\ run = [slot \in Slots |-> IdleRun]
  /\ lastRead = NoRead
  /\ importedLog = {}

Init ==
  /\ InitStore
  /\ quota = [slot \in Slots |-> IF slot = 1 THEN 1 ELSE 0]
  /\ env = [menu |-> "all", faults |-> MaxFaults]

InitRepeat ==
  /\ InitStore
  /\ quota = [slot \in Slots |-> IF slot = 1 THEN MaxRequests ELSE 0]
  /\ env = [menu |-> "repeat", faults |-> MaxRepeatFaults]

InitConcurrent ==
  /\ InitStore
  /\ quota = [slot \in Slots |-> 1]
  /\ env = [menu |-> "repeat", faults |-> 0]

InitMarkup ==
  /\ InitStore
  /\ quota = [slot \in Slots |-> IF slot = 1 THEN 1 ELSE 0]
  /\ env = [menu |-> "markup", faults |-> 0]

InitSelect ==
  /\ InitStore
  /\ quota = [slot \in Slots |-> IF slot = 1 THEN 1 ELSE 0]
  /\ env = [menu |-> "select", faults |-> 0]

Next ==
  \/ \E slot \in Slots : StartImport(slot)
  \/ \E slot \in Slots : PreItem(slot)
  \/ \E slot \in Slots : LookupItem(slot)
  \/ \E slot \in Slots : UpdateProduct(slot)
  \/ \E slot \in Slots : CreateProduct(slot)
  \/ \E slot \in Slots : UpdateSessionProgress(slot)
  \/ \E slot \in Slots : SaveImportedProduct(slot)
  \/ \E slot \in Slots : CatchItem(slot)
  \/ \E slot \in Slots : Finalize(slot)
  \/ \E sessionId \in 1..Len(sessions) : GetProgress(sessionId)

Spec == Init /\ [][Next]_vars

SpecRepeat == InitRepeat /\ [][Next]_vars

SpecConcurrent == InitConcurrent /\ [][Next]_vars

SpecMarkup == InitMarkup /\ [][Next]_vars

SpecSelect == InitSelect /\ [][Next]_vars

(***************************************************************************)
(* Properties.                                                             *)
(***************************************************************************)
Successes(results) == Cardinality({k \in 1..Len(results) : results[k].success})

Failures(results) == Cardinality({k \in 1..Len(results) : ~results[k].success})

\* the run has just left an item: its result is the last entry of results
\* and fx still describes it
ItemFinished(r) ==
  r.pc \in {"pre", "final", "done"} /\ r.i >= 2 /\ Len(r.results) = r.i - 1

LastResult(r) == r.results[Len(r.results)]

StatusRank(status) ==
  CASE status = "running" -> 1 [] status = "processing" -> 2 [] status = "completed" -> 3

\* the records of the shop that match a product by first-variant SKU or title
MatchingRecords(table, shop, sku, title) ==
  {k \in 1..Len(table) :
     /\ table[k].shop = shop
     /\ (sku # <<>> /\ table[k].sku = sku) \/ (title # <<>> /\ table[k].title = title)}

\* C1: of two successive getProgress reads of the same session, the later
\* one reports imported and failed counts at least as large as the earlier.
C1_ProgressMonotone ==
  [][(lastRead.sessionId # 0 /\ lastRead'.sessionId = lastRead.sessionId)
       => (lastRead'.imported >= lastRead.imported /\ lastRead'.failed >= lastRead.failed)]_vars

\* a read was taken mid-run, and the stored counters have advanced since
C1_Witness ==
  /\ lastRead.sessionId # 0
  /\ lastRead.status = "processing"
  /\ lastRead.imported >= 1
  /\ sessions[lastRead.sessionId].importedProducts > lastRead.imported

\* C2: failures of catalog-API calls on items never end the loop: a run is
\* left early only by an error of the record store, the results list grows
\* by one entry per item in order, and a finished run has one entry per
\* product.
C2_EveryItemVisited ==
  \A slot \in Slots :
    LET r == run[slot]
    IN /\ r.pc = "aborted" => r.abortCause = "store"
       /\ \A k \in 1..Len(r.results) : r.results[k].item = k
       /\ r.pc \in {"pre", "item", "update", "create", "sessUpd", "saveRec", "catch"}
            => Len(r.results) = r.i - 1
       /\ r.pc = "done" => Len(r.results) = Len(r.productsToProcess)

\* a finished run whose first item failed on a catalog call and whose
\* second item was imported
C2_Witness ==
  \E slot \in Slots :
    /\ run[slot].pc = "done"
    /\ Len(run[slot].results) >= 2
    /\ ~run[slot].results[1].success
    /\ run[slot].results[2].success

\* C3: a session's status never moves back along running, processing,
\* completed; completedAt is stamped at most once, and exactly once when
\* the run returns its result; nothing is written to a completed session.
C3_StatusForwardOnly ==
  [][/\ \A id \in 1..Len(sessions) :
          /\ StatusRank(sessions'[id].status) >= StatusRank(sessions[id].status)
          /\ sessions'[id].completedAt <= 1
          /\ sessions[id].status = "completed" => sessions'[id] = sessions[id]
     /\ \A slot \in Slots :
          run'[slot].pc = "done"
            => /\ sessions'[run'[slot].sessionId].status = "completed"
               /\ sessions'[run'[slot].sessionId].completedAt = 1]_vars

\* a session completed after its progress was written during the loop
C3_Witness ==
  \E id \in 1..Len(sessions) :
    /\ sessions[id].status = "completed"
    /\ sessions[id].completedAt = 1
    /\ sessions[id].writes >= 3

\* C4: a run that has created its session and has ended has set the
\* session's status to completed.
C4_CreatedSessionCompletes ==
  \A slot \in Slots :
    (run[slot].sessionId # 0 /\ run[slot].pc \in {"done", "aborted"})
      => sessions[run[slot].sessionId].status = "completed"

\* C5: a request without shop identity, or whose data field is missing or
\* is not valid JSON, is answered with an error; no session is created, no
\* catalog call is made and no item is processed.
C5_RejectedBeforeAnyWork ==
  \A slot \in Slots :
    LET r == run[slot]
    IN (r.auth \in {"noShop", "throws"} \/ r.data \in {"missing", "invalid"})
         => /\ r.pc = "rejected"
            /\ r.response \in {"400", "401"}
            /\ r.sessionId = 0
            /\ r.catalogCalls = 0
            /\ r.results = <<>>
            /\ sessions = <<>> /\ catalog = <<>> /\ importedProduct = <<>>

\* a request with a shop whose data is not valid JSON was answered 400
C5_Witness ==
  \E slot \in Slots :
    /\ run[slot].auth = "ok"
    /\ run[slot].data = "invalid"
    /\ run[slot].response = "400"

\* C6: the item loop never runs over an empty list: an empty source list is
\* replaced by the one demo product, and a completed run has counted at
\* least one item.
C6_NeverEmptyRun ==
  \A slot \in Slots :
    LET r == run[slot]
    IN r.sessionId # 0
         => /\ Len(r.productsToProcess) >= 1
            /\ r.sourceCount = 0
                 => r.productsToProcess = <<demoProduct(r.payload.importConfig)>>
            /\ r.pc = "done"
                 => /\ r.importedCount + r.failedCount >= 1
                    /\ sessions[r.sessionId].importedProducts
                         + sessions[r.sessionId].failedProducts >= 1

\* a completed run whose source list was empty
C6_Witness ==
  \E slot \in Slots :
    /\ run[slot].pc = "done"
    /\ run[slot].sourceCount = 0
    /\ run[slot].importedCount = 1

FirstSku(product) ==
  IF product.variants # <<>> THEN product.variants[1].sku ELSE <<>>

\* C7 (as claimed): productCreate is never called for a product whose SKU,
\* or whose title, is that of an item an earlier run counted as imported.
C7_ReimportNeverCreates ==
  \A slot \in Slots :
    LET r == run[slot]
        p == r.processedProduct
    IN r.fx.path = "create"
         => \A e \in importedLog :
              e.session < r.sessionId
                => ~((FirstSku(p) # <<>> /\ e.sku = FirstSku(p)) \/ e.title = p.title)

\* C7 (amended): productCreate is called for an item only when no record of
\* the shop matched it by SKU or title at the time of the lookup, or the
\* lookup failed, or the catalog update of the record found failed; an
\* item whose update succeeded is not created.
C7_CreateOnlyWithoutRecordOrAfterFailure ==
  \A slot \in Slots :
    LET r == run[slot]
        p == r.processedProduct
        atLookup == SubSeq(importedProduct, 1, r.fx.recordsAtLookup)
    IN /\ r.fx.path = "create"
            => \/ r.fx.lookupFailed
               \/ r.fx.updateFailed
               \/ MatchingRecords(atLookup, r.shop, FirstSku(p), p.title) = {}
       /\ (r.fx.path = "update" /\ r.fx.succeeded)
            => r.existingProduct \in MatchingRecords(atLookup, r.shop, FirstSku(p), p.title)

\* a later run found the record an earlier run wrote and updated the product
C7_Witness ==
  \E slot \in Slots :
    LET r == run[slot]
    IN /\ r.fx.path = "update"
       /\ r.fx.succeeded
       /\ r.existingProduct # NoRecord
       /\ importedProduct[r.existingProduct].importSessionId < r.sessionId

\* C8: runs that execute at the same time never create two catalog
\* products for one SKU, as runs executed one after the other never do.
C8_NoDuplicateCreate ==
  \A a \in 1..Len(catalog), b \in 1..Len(catalog) :
    (a # b /\ catalog[a].sku # <<>>) => catalog[a].sku # catalog[b].sku

\* C9: an item whose variant creation returned an error is counted as
\* failed and gets a failure entry.
C9_VariantFailureCountsFailed ==
  \A slot \in Slots :
    LET r == run[slot]
    IN (ItemFinished(r) /\ r.fx.variantErr)
         => /\ ~LastResult(r).success
            /\ r.failedCount = Failures(r.results)
            /\ r.importedCount = Successes(r.results)

\* C10: an item whose catalog product was created or updated is counted
\* once as imported and gets a success entry, also when publishing, the
\* progress update or the ImportedProduct write failed.
C10_SideEffectFailuresKeepSuccess ==
  \A slot \in Slots :
    LET r == run[slot]
    IN (ItemFinished(r) /\ r.fx.succeeded
        /\ (r.fx.publishFailed \/ r.fx.sessionWriteFailed \/ r.fx.recordWriteFailed))
         => /\ LastResult(r).success
            /\ r.importedCount = Successes(r.results)
            /\ r.failedCount = Failures(r.results)

\* an item was imported although publishing and the record write failed
C10_Witness ==
  \E slot \in Slots :
    LET r == run[slot]
    IN /\ ItemFinished(r)
       /\ r.fx.succeeded
       /\ r.fx.publishFailed
       /\ r.fx.recordWriteFailed
       /\ LastResult(r).success

\* C11: of two successive getProgress reads of the same session, the later
\* one reports a totalProducts at least as large as the earlier.
C11_TotalNeverDecreases ==
  [][(lastRead.sessionId # 0 /\ lastRead'.sessionId = lastRead.sessionId)
       => lastRead'.totalProducts >= lastRead.totalProducts]_vars

\* the catalog products created by a session, in creation order
CreatedBy(sessionId) ==
  SelectSeq(catalog, LAMBDA e : e.createdBy = sessionId)

\* C12: a run of the end-to-end payload (rows "A" at 10.00 and "B" at
\* 20.00, no selector token, markup title eq "A" / fixed 5) that met no
\* failure and found no earlier record sends product "A" with price
\* "15.00" and product "B" with price "20.00", and its session ends
\* completed with importedProducts = 2 and failedProducts = 0.
C12_EndToEnd ==
  \A slot \in Slots :
    LET r == run[slot]
    IN (r.pc = "done" /\ r.payload = EndToEndPayload /\ r.faults = env.faults
          /\ Len(sessions) = 1)
         => /\ Len(CreatedBy(r.sessionId)) = 2
            /\ CreatedBy(r.sessionId)[1].title = <<"A">>
            /\ CreatedBy(r.sessionId)[1].price = <<"1", "5", ".", "0", "0">>
            /\ CreatedBy(r.sessionId)[2].title = <<"B">>
            /\ CreatedBy(r.sessionId)[2].price = <<"2", "0", ".", "0", "0">>
            /\ sessions[r.sessionId].status = "completed"
            /\ sessions[r.sessionId].importedProducts = 2
            /\ sessions[r.sessionId].failedProducts = 0
            /\ r.response = "200"

\* the end-to-end run has finished without meeting a failure
C12_Witness ==
  \E slot \in Slots :
    /\ run[slot].pc = "done"
    /\ run[slot].payload = EndToEndPayload
    /\ run[slot].faults = env.faults
    /\ Len(catalog) = 2

\* LookupItem has applied applyMarkupRules to the item of the run
AfterLookup(r) == r.pc \in {"update", "create"}

\* the price in hundredths of the row of a markup payload
SourceCents(r) ==
  (CHOOSE price \in MarkupPrices : price.s = r.productsToProcess[r.i].variants[1].price).cents

\* the price in hundredths that the markup of a condition gives, rounded
\* half up; markup values of the payload family are whole numbers
ExpectedCents(condition, cents) ==
  IF condition.markupType = "fixed"
  THEN cents + 100 * digitsValue(condition.markupValue, 0)
  ELSE (cents * (100 + digitsValue(condition.markupValue, 0)) + 50) \div 100

\* the conditions that evaluate true on a product and carry a valid markup
Eligible(product, conditions) ==
  {k \in 1..Len(conditions) :
     /\ checkCondition(product, conditions[k])
     /\ digitsValue(conditions[k].markupValue, 0) > 0
     /\ conditions[k].markupType \in {"percent", "percentage", "fixed"}}

FromMarkupFamily(r) ==
  /\ Len(r.productsToProcess) = 1
  /\ \E price \in MarkupPrices : r.productsToProcess[1].variants[1].price = price.s

\* C13: when the conditions of the config match and some conditions are
\* true with a valid markup, the price after applyMarkupRules is the price
\* marked up by the first of them in declaration order.
C13_FirstMatchWins ==
  \A slot \in Slots :
    LET r == run[slot]
        conditions == r.payload.markupConfig.conditions
        product == r.productsToProcess[r.i]
        eligible == Eligible(product, conditions)
        first == CHOOSE k \in eligible : \A j \in eligible : k <= j
    IN (/\ AfterLookup(r) /\ FromMarkupFamily(r)
        /\ conditionsMatch(product, conditions, r.payload.markupConfig.conditionsType)
        /\ eligible # {})
         => parseFloat(r.processedProduct.variants[1].price).v
              = 100 * ExpectedCents(conditions[first], SourceCents(r))

\* an amount in hundredths as a two-decimal string
CentsStr(cents) ==
  NumStr(cents \div 100) \o <<".">>
    \o <<DigitChars[((cents % 100) \div 10) + 1], DigitChars[(cents % 10) + 1]>>

\* C14: when the one condition of the config is true and its markup
\* changes the price, the first-variant price after applyMarkupRules is
\* the two-decimal string of price * (1 + value/100) for a percent markup
\* and of price + value for a fixed one, rounded to hundredths; "19.99"
\* with percent 10 gives "21.99" and "100.00" with fixed 5 gives "105.00".
C14_MarkupArithmetic ==
  \A slot \in Slots :
    LET r == run[slot]
        conditions == r.payload.markupConfig.conditions
        before == r.productsToProcess[r.i].variants[1].price
        after == r.processedProduct.variants[1].price
    IN (AfterLookup(r) /\ FromMarkupFamily(r) /\ conditions \in {<<PercentTen>>, <<FixedFive>>})
         => /\ SourceCents(r) > 0
                 => after = CentsStr(ExpectedCents(conditions[1], SourceCents(r)))
            /\ (conditions = <<PercentTen>> /\ before = <<"1", "9", ".", "9", "9">>)
                 => after = <<"2", "1", ".", "9", "9">>
            /\ (conditions = <<FixedFive>> /\ before = <<"1", "0", "0", ".", "0", "0">>)
                 => after = <<"1", "0", "5", ".", "0", "0">>

\* a percent markup of 10 has been applied to the price "19.99"
C14_Witness ==
  \E slot \in Slots :
    /\ AfterLookup(run[slot])
    /\ run[slot].payload.markupConfig.conditions = <<PercentTen>>
    /\ run[slot].productsToProcess[1].variants[1].price = <<"1", "9", ".", "9", "9">>
    /\ run[slot].processedProduct.markupApplied

\* C15: a condition price between "min-max" is true exactly when the price
\* is at least min and max is 0 or the price is at most max: with the
\* one condition between / fixed 5 the markup is applied exactly to those
\* prices; "50-100" is true for 75 and false for 10, "50-0" is true for 9999.
C15_Between ==
  \A slot \in Slots :
    LET r == run[slot]
        conditions == r.payload.markupConfig.conditions
        product == r.productsToProcess[r.i]
        before == product.variants[1].price
    IN (AfterLookup(r) /\ FromMarkupFamily(r))
         => \A range \in BetweenRanges :
              conditions = <<BetweenCondition(range[1], range[2])>>
                => /\ checkCondition(product, conditions[1])
                        = /\ SourceCents(r) >= 100 * range[1]
                          /\ range[2] = 0 \/ SourceCents(r) <= 100 * range[2]
                   /\ r.processedProduct.markupApplied = checkCondition(product, conditions[1])
                   /\ (range = <<50, 100>> /\ before = <<"7", "5">>)
                        => r.processedProduct.markupApplied
                   /\ (range = <<50, 100>> /\ before = <<"1", "0">>)
                        => ~r.processedProduct.markupApplied
                   /\ (range = <<50, 0>> /\ before = <<"9", "9", "9", "9">>)
                        => r.processedProduct.markupApplied

\* the markup of the condition between "50-0" has been applied to the
\* price "9999"
C15_Witness ==
  \E slot \in Slots :
    /\ AfterLookup(run[slot])
    /\ run[slot].payload.markupConfig.conditions = <<BetweenCondition(50, 0)>>
    /\ run[slot].productsToProcess[1].variants[1].price = <<"9", "9", "9", "9">>
    /\ run[slot].processedProduct.variants[1].price = <<"1", "0", "0", "0", "4", ".", "0", "0">>

(***************************************************************************)
(* Selection filter.                                                       *)
(***************************************************************************)
\* a occurs in b as a contiguous piece
Within(a, b) == \E i \in 0..(Len(b) - Len(a)) : SubSeq(b, i + 1, i + Len(a)) = a

\* equals, contains or is contained by
Close(recordValue, tokenValue) ==
  \/ recordValue = tokenValue
  \/ Within(tokenValue, recordValue)
  \/ Within(recordValue, tokenValue)

\* some valid token (key, value) is close to the record's trimmed value at
\* key, without regard to case; trimToken says whether the token value is
\* trimmed as well
RecordSelected(record, tokens, trimToken) ==
  \E k \in 1..Len(tokens) :
     /\ TokenKey(tokens[k]) # <<>>
     /\ TokenValue(tokens[k]) # <<>>
     /\ Close(toLowerCase(trim(Get(record, TokenKey(tokens[k])))),
              toLowerCase(IF trimToken THEN trim(TokenValue(tokens[k]))
                          ELSE TokenValue(tokens[k])))

\* a run of the selection payload family that has resolved its source
Selecting(r) ==
  r.sessionId # 0 /\ r.payload \in SelectCsvPayloads \cup SelectApiPayloads

\* the records the filter was given, their titles, and the products it kept
SelectRecords(r) == IF r.payload.dataSource = "csv" THEN r.payload.csvData.rows ELSE r.items

RecordTitle(r, record) ==
  IF r.payload.dataSource = "csv" THEN record[K_Title] ELSE record[K_name]

Kept(r) == IF r.sourceCount = 0 THEN <<>> ELSE r.productsToProcess

\* the kept products are the records of the index set wanted, each once,
\* and all records in their order when there is no token
KeepsExactly(r, wanted) ==
  /\ r.sourceCount = Cardinality(wanted)
  /\ \A i \in wanted :
       \E k \in 1..Len(Kept(r)) : Kept(r)[k].title = RecordTitle(r, SelectRecords(r)[i])
  /\ r.payload.tokens = <<>> =>
       \A k \in 1..Len(Kept(r)) : Kept(r)[k].title = RecordTitle(r, SelectRecords(r)[k])

Wanted(r, trimToken) ==
  {i \in 1..Len(SelectRecords(r)) :
     r.payload.tokens = <<>> \/ RecordSelected(SelectRecords(r)[i], r.payload.tokens, trimToken)}

\* C16 as stated: with no selector token all records are kept in order;
\* otherwise a record is kept iff some valid token (key, value) has the
\* record's trimmed value at key equal to, containing or contained by the
\* token value as given, without regard to case, and each kept record
\* appears once.
C16_SelectionUntrimmedToken ==
  \A slot \in Slots : Selecting(run[slot]) => KeepsExactly(run[slot], Wanted(run[slot], FALSE))

\* C16 amended: the same with the token value trimmed as the record value is.
C16_Selection ==
  \A slot \in Slots : Selecting(run[slot]) => KeepsExactly(run[slot], Wanted(run[slot], TRUE))

\* a CSV run where two tokens match the same row and another row is left out
C16_Witness ==
  \E slot \in Slots :
    LET r == run[slot]
    IN /\ Selecting(r) /\ r.payload.dataSource = "csv"
       /\ 0 < r.sourceCount /\ r.sourceCount < Len(SelectRecords(r))
       /\ Len(r.payload.tokens) = 2
       /\ \E i \in 1..Len(SelectRecords(r)) :
            \A k \in 1..2 :
              RecordSelected(SelectRecords(r)[i], <<r.payload.tokens[k]>>, TRUE)

(***************************************************************************)
(* Tag cap.                                                                *)
(***************************************************************************)
\* C17: every product of a source transformer carries at most 250 tags.
C17_TagCap ==
  \A slot \in Slots :
    \A k \in 1..Len(run[slot].productsToProcess) :
      Len(run[slot].productsToProcess[k].tags) <= 250

(***************************************************************************)
(* Create and update paths within a run.                                   *)
(***************************************************************************)
\* the records of the shop that matched the item of run r when it was looked up
MatchedAtLookup(r) ==
  MatchingRecords(SubSeq(importedProduct, 1, r.fx.recordsAtLookup), r.shop,
                  FirstSku(r.processedProduct), r.processedProduct.title)

\* C18 as stated: productCreate is called for an item only if no record of
\* the shop matches it by first-variant SKU or by title.
C18_CreateOnlyWithoutRecord ==
  \A slot \in Slots : run[slot].fx.path = "create" => MatchedAtLookup(run[slot]) = {}

\* C18 amended: productCreate is called for an item only if no record of
\* the shop matches it, or the lookup failed, or the update of the record
\* found failed; an item whose record was found and whose update did not
\* fail is never passed to productCreate, and an update is attempted only
\* for a record that matches.
C18_CreateOnlyWithoutRecordOrAfterFailure ==
  \A slot \in Slots :
    LET r == run[slot]
    IN /\ (r.fx.path = "create" /\ ~r.fx.lookupFailed /\ ~r.fx.updateFailed)
            => MatchedAtLookup(r) = {}
       /\ (r.fx.found /\ ~r.fx.updateFailed) => r.fx.path # "create"
       /\ (r.fx.found \/ r.fx.updateFailed) => r.existingProduct \in MatchedAtLookup(r)

\* the second of two items that share a SKU or a title was updated through
\* the record the first one left in the same run
C18_Witness ==
  \E slot \in Slots :
    LET r == run[slot]
    IN /\ r.fx.path = "update"
       /\ r.fx.succeeded
       /\ r.i = 2
       /\ r.existingProduct # NoRecord
       /\ importedProduct[r.existingProduct].importSessionId = r.sessionId

(***************************************************************************)
(* Order of the record write and the counter write.                        *)
(***************************************************************************)
\* the ImportedProduct records of a session
RecordsOf(sessionId) ==
  {k \in 1..Len(importedProduct) : importedProduct[k].importSessionId = sessionId}

\* C19: a progress read never reports more imported products than the
\* session has ImportedProduct records, the record of an item being
\* written before the stored counter is advanced for it.
C19_RecordBeforeCounter ==
  /\ lastRead.sessionId # 0
       => lastRead.imported <= Cardinality(RecordsOf(lastRead.sessionId))
  /\ \A sessionId \in 1..Len(sessions) :
       sessions[sessionId].importedProducts <= Cardinality(RecordsOf(sessionId))

(***************************************************************************)
(* Persistence of the counters after an item.                              *)
(***************************************************************************)
\* the stored counters of the session of run r are its in-memory counts
CountsStored(r) ==
  /\ sessions[r.sessionId].importedProducts = r.importedCount
  /\ sessions[r.sessionId].failedProducts = r.failedCount

\* C20: when a catalog call of an item is about to be made, and when the
\* final completed write is about to be made, the stored importedProducts
\* and failedProducts equal the in-memory counts, whatever the outcome of
\* the items before.
C20_CountsStoredAfterItem ==
  \A slot \in Slots :
    LET r == run[slot]
    IN (r.sessionId # 0 /\ r.pc \in {"update", "create", "final"}) => CountsStored(r)

(***************************************************************************)
(* Conditions without a positive markup value.                             *)
(***************************************************************************)
\* the markupValue of a condition is absent or not greater than 0
Unvalued(condition) ==
  \/ condition.markupValue = <<>>
  \/ parseFloat(condition.markupValue).nan
  \/ parseFloat(condition.markupValue).v <= 0

\* C21: when no condition of the config has a markupValue greater than 0,
\* applyMarkupRules leaves the first-variant price as it was and does not
\* set markupApplied.
C21_UnvaluedNeverMarksUp ==
  \A slot \in Slots :
    LET r == run[slot]
        conditions == r.payload.markupConfig.conditions
    IN (/\ AfterLookup(r) /\ FromMarkupFamily(r)
        /\ \A k \in 1..Len(conditions) : Unvalued(conditions[k]))
         => /\ r.processedProduct.variants[1].price
                 = r.productsToProcess[r.i].variants[1].price
            /\ ~r.processedProduct.markupApplied

(***************************************************************************)
(* Order of the selected rows.                                             *)
(***************************************************************************)
\* the position in the source records of the record a kept product came from
SourceIndex(r, product) ==
  CHOOSE i \in 1..Len(SelectRecords(r)) : RecordTitle(r, SelectRecords(r)[i]) = product.title

\* C22: in CSV mode with selector tokens the products of the selected rows
\* follow one another in the order of their rows in csvData.rows.
C22_CsvOrderKept ==
  \A slot \in Slots :
    LET r == run[slot]
    IN (Selecting(r) /\ r.payload.dataSource = "csv" /\ r.payload.tokens # <<>>)
         => \A k \in 1..Len(Kept(r)), j \in 1..Len(Kept(r)) :
              k < j => SourceIndex(r, Kept(r)[k]) < SourceIndex(r, Kept(r)[j])

(***************************************************************************)
(* Filter-derived tags.                                                    *)
(***************************************************************************)
\* token k of the list is well-formed
ValidToken(tokens, k) == TokenKey(tokens[k]) # <<>> /\ TokenValue(tokens[k]) # <<>>

\* C23: a product carries the value of a selector token as a tag only if a
\* token with that value matched the record the product came from.
C23_TagsOfMatchedTokensOnly ==
  \A slot \in Slots :
    LET r == run[slot]
        tokens == r.payload.tokens
    IN Selecting(r)
         => \A p \in 1..Len(Kept(r)), k \in 1..Len(tokens) :
              (/\ ValidToken(tokens, k)
               /\ \E t \in 1..Len(Kept(r)[p].tags) : Kept(r)[p].tags[t] = TokenValue(tokens[k]))
                => \E j \in 1..Len(tokens) :
                     /\ TokenValue(tokens[j]) = TokenValue(tokens[k])
                     /\ RecordSelected(SelectRecords(r)[SourceIndex(r, Kept(r)[p])],
                                       <<tokens[j]>>, TRUE)

(***************************************************************************)
(* Synthesized SKUs.                                                       *)
(***************************************************************************)
\* C24: the SKU synthesized for a CSV row without SKU is "SKU-" followed by
\* the 1-based position of the row in csvData.rows, whatever selector
\* tokens are applied.
C24_SynthesizedSkuByRowIndex ==
  \A slot \in Slots :
    LET r == run[slot]
    IN (Selecting(r) /\ r.payload.dataSource = "csv")
         => \A p \in 1..Len(Kept(r)) :
              Get(SelectRecords(r)[SourceIndex(r, Kept(r)[p])], K_SKU) = <<>>
                => Kept(r)[p].variants[1].sku
                     = S_SkuPrefix \o NumStr(SourceIndex(r, Kept(r)[p]))

(***************************************************************************)
(* Variants of the products of the item loop.                              *)
(***************************************************************************)
\* C25: every product of the list the item loop runs over has at least one
\* variant, and no item is failed by the markup step.
C25_EveryProductHasVariant ==
  \A slot \in Slots :
    LET r == run[slot]
    IN r.sessionId # 0
         => /\ \A k \in 1..Len(r.productsToProcess) : r.productsToProcess[k].variants # <<>>
            /\ r.pc = "catch"
                 => ~applyMarkupRules(r.productsToProcess[r.i], r.payload.markupConfig).threw

(***************************************************************************)
(* Conditions on the tags array.                                           *)
(***************************************************************************)
\* the operator holds between the trimmed, case-folded tags and the
\* trimmed, case-folded condition value
TagHolds(tags, operator, value) ==
  LET some(P(_)) == \E k \in 1..Len(tags) : P(toLowerCase(trim(tags[k])))
      v == toLowerCase(trim(value))
  IN CASE operator = "eq" -> some(LAMBDA t : t = v)
       [] operator = "neq" -> ~some(LAMBDA t : t = v)
       [] operator = "starts" -> some(LAMBDA t : startsWith(t, v))
       [] operator = "ends" -> some(LAMBDA t : endsWith(t, v))
       [] operator = "contains" -> some(LAMBDA t : Within(v, t))
       [] OTHER -> ~some(LAMBDA t : Within(v, t))

\* C26: a condition on the tags array is true exactly when its operator
\* holds between the trimmed, case-folded tags and the trimmed, case-folded
\* condition value; the markup of the one condition is applied exactly then.
C26_TagsTrimmedAndFolded ==
  \A slot \in Slots :
    LET r == run[slot]
        condition == r.payload.markupConfig.conditions[1]
    IN (r.payload \in TagConditionPayloads /\ AfterLookup(r))
         => r.processedProduct.markupApplied
              = TagHolds(r.productsToProcess[r.i].tags, condition.operator, condition.value)

(***************************************************************************)
(* Prices sent to the catalog.                                             *)
(***************************************************************************)
\* C27: the variant input sent for an item that was updated or created
\* carries the item's first-variant price after markup as a two-decimal
\* string, "0.00" when the price cannot be parsed.
C27_MarkedUpPriceSent ==
  \A slot \in Slots :
    LET r == run[slot]
    IN (r.fx.succeeded /\ r.processedProduct.variants # <<>>)
         => r.fx.priceSent = toMoneyString(r.processedProduct.variants[1].price)

(***************************************************************************)
(* Unknown operators and undefined fields.                                 *)
(***************************************************************************)
\* C28: a condition with an operator outside the known ones ("gt", "lt")
\* or on a field that resolves to undefined is false under every operator
\* and raises nothing: a config that has only such conditions leaves the
\* price as it was, does not set markupApplied and does not fail the item.
C28_UnknownOperatorOrFieldIsFalse ==
  \A slot \in Slots :
    LET r == run[slot]
        conditions == r.payload.markupConfig.conditions
    IN (/\ r.sessionId # 0 /\ r.pc \notin {"pre", "item"}
        /\ conditions # <<>>
        /\ \A k \in 1..Len(conditions) : conditions[k] \in InertConditions
        /\ FromMarkupFamily(r))
         => /\ r.pc # "catch"
            /\ \A k \in 1..Len(conditions) :
                 ~checkCondition(r.productsToProcess[1], conditions[k])
            /\ r.processedProduct.variants[1].price = r.productsToProcess[1].variants[1].price
            /\ ~r.processedProduct.markupApplied

\* an item priced "75" went through a config of "gt" 5 and an undefined field
C28_Witness ==
  \E slot \in Slots :
    LET r == run[slot]
    IN /\ AfterLookup(r) /\ FromMarkupFamily(r)
       /\ r.payload.markupConfig.conditions = <<PriceGreater, CostNotEqual>>
       /\ r.payload.markupConfig.conditionsType = "any"
       /\ r.productsToProcess[1].variants[1].price = <<"7", "5">>
       /\ r.processedProduct.variants[1].price = <<"7", "5">>

(***************************************************************************)
(* Counters and results of the item loop.                                  *)
(***************************************************************************)
\* C29: between two items and after the last one, importedCount +
\* failedCount is the number of items processed and the length of results,
\* importedCount is the number of success entries and failedCount the
\* number of failure entries; within an item at most one of the counters
\* has moved, by one; a finished run has counted every product of the list.
C29_CountersMatchResults ==
  \A slot \in Slots :
    LET r == run[slot]
    IN r.sessionId # 0
         => /\ r.pc \in {"pre", "final", "done"}
                 => /\ r.importedCount + r.failedCount = r.i - 1
                    /\ r.importedCount + r.failedCount = Len(r.results)
                    /\ r.importedCount = Successes(r.results)
                    /\ r.failedCount = Failures(r.results)
            /\ r.pc \in {"item", "update", "create", "sessUpd", "saveRec", "catch"}
                 => /\ r.failedCount = Failures(r.results)
                    /\ r.importedCount - Successes(r.results) \in {0, 1}
            /\ r.pc = "done"
                 => r.importedCount + r.failedCount = Len(r.productsToProcess)

\* a finished run of two items, one imported and one failed
C29_Witness ==
  \E slot \in Slots :
    /\ run[slot].pc = "done"
    /\ run[slot].importedCount = 1
    /\ run[slot].failedCount = 1
    /\ Len(run[slot].results) = 2

(***************************************************************************)
(* The count displayed by the import filter step.                          *)
(***************************************************************************)
\* C30: for a CSV source the number of rows processCsvData selects for the
\* tokens the filter step emitted is the number the step displayed.
C30_DisplayedCountIsSelectedCount ==
  \A slot \in Slots :
    LET r == run[slot]
    IN (r.sessionId # 0 /\ r.payload \in FilterStepPayloads)
         => r.sourceCount = r.payload.totalProducts

====
